---- MODULE Spec2Model ----
(***************************************************************************)
(* Plot / PlotService of lost-media/residential3.                          *)
(*                                                                         *)
(* A Plot holds an optional player, a LinkedList<string,IStructureInstance>*)
(* (structureList) and a host-world instance whose "structures" folder     *)
(* holds the spawned models.  A CFrame is modelled by an integer position  *)
(* on a line; CFrame.mul is addition of positions.                         *)
(***************************************************************************)
EXTENDS Integers, Sequences, FiniteSets, TLC

\* ---- bounds ----
MaxInst == 2        \* structure instances spawned in one behaviour
MaxDestroy == 2     \* destroy() calls in one behaviour

\* ---- host values ----
Undefined == "undefined"
NoParent == "nil"
NoPlatform == -1
PlatformCFrame == 1
TemplatePos == 0
Players == {"p1", "p2"}
PlotIds == {"A", "B"}
UUIDs == {"", "u1"}
CFrames == {0, 1}
Policies == {"fail", "overwrite", "moveToEnd"}
UnknownPolicy == "unknown"

StructureIds == {"road-intersection"}
StructureIdArgs == {"road-intersection", "nonexistent"}
UUIDArgs == {Undefined, "u1"}

VARIABLES pool, player, structureList, instances, platform, policy, lastCall, serialized,
          service, runner
vars == <<pool, player, structureList, instances, platform, policy, lastCall, serialized,
          service, runner>>

\* the plots PlotFactory loaded, in load order
Loaded == {pool[k] : k \in 1..Len(pool)}

NoCall == [op |-> "none", plot |-> "A", err |-> "none", who |-> Undefined]
Call(op, p, err, who) == [op |-> op, plot |-> p, err |-> err, who |-> who]

\* what a PlotService handler did: the events it fired, what it logged, and whether an
\* error left the handler
Idle == [handler |-> "none", who |-> Undefined, arg |-> "none", fired |-> <<>>,
         logged |-> "none", escaped |-> FALSE]
Handled(h, q, arg, fired, logged, escaped) ==
    [handler |-> h, who |-> q, arg |-> arg, fired |-> fired, logged |-> logged,
     escaped |-> escaped]

\* ---- TestRunner ----
MaxTests == 3       \* test cases of all test classes together

\* the test classes the constructor found, in the order of this.testClasses
TestClasses == <<"c1", "c2">>
ClassIdx == 1..Len(TestClasses)

\* options?.timeout in milliseconds, NoTimeout when there is none
NoTimeout == -1
Timeouts == {NoTimeout, 1}
\* (os.clock() - start) * 1000
ElapsedMs == {0, 1, 2}

\* a test case of the test list: whether its beforeEach and afterEach callbacks have run and
\* where its runTestCase stands
NotRun == [state |-> "notrun", timeout |-> NoTimeout, beforeEach |-> FALSE, afterEach |-> FALSE]

\* a TestCaseResult of this.results
NoResult == [recorded |-> FALSE, errorMessage |-> Undefined]
NoCase == [cls |-> 0, test |-> 0, threw |-> FALSE, timeout |-> NoTimeout, elapsed |-> 0]
NoReport == [printed |-> FALSE, totalTests |-> 0, passed |-> 0, failed |-> 0]

\* new TestRunner(...roots); counts[c] is the number of test cases of class c
TestRunner(counts) ==
    [pc |-> "constructed", cls |-> 1, idx |-> 1,
     tests |-> [c \in ClassIdx |-> [t \in 1..counts[c] |-> NotRun]],
     results |-> [c \in ClassIdx |-> [t \in 1..counts[c] |-> NoResult]],
     failedTests |-> 0, passedTests |-> 0,
     afterAll |-> [c \in ClassIdx |-> FALSE],
     completed |-> 0, lastCase |-> NoCase, report |-> NoReport]

NoRunner == TestRunner([c \in ClassIdx |-> 0])

getTestsFromTestClass(r, c) == r.tests[c]

addResult(r, c, t, result) == [r EXCEPT !.results[c][t] = result]

\* fail that counts the test as passed as well
failCountingBoth(r, c, t, exception) ==
    [addResult(r, c, t, [recorded |-> TRUE, errorMessage |-> exception])
        EXCEPT !.failedTests = @ + 1, !.passedTests = @ + 1]

fail(r, c, t, exception) ==
    [addResult(r, c, t, [recorded |-> TRUE, errorMessage |-> exception])
        EXCEPT !.failedTests = @ + 1]

pass(r, c, t) ==
    [addResult(r, c, t, [recorded |-> TRUE, errorMessage |-> Undefined])
        EXCEPT !.passedTests = @ + 1]

\* timeout !== undefined && timeout < timeElapsed * 1000
TimedOut(timeout, elapsed) == timeout # NoTimeout /\ timeout < elapsed

\* runTestCase from the return of `await callback(testClassInstance)` to its own return
runTestCaseReturns(r, c, t, threw, timeout, elapsed) ==
    LET r1 == IF threw THEN fail(r, c, t, "exception")
              ELSE IF TimedOut(timeout, elapsed) THEN fail(r, c, t, "Timed out")
              ELSE pass(r, c, t)
    IN  [r1 EXCEPT !.tests[c][t].state = "completed",
                   !.completed = @ + 1,
                   !.lastCase = [cls |-> c, test |-> t, threw |-> threw,
                                 timeout |-> timeout, elapsed |-> elapsed]]

\* runTestCase(callback, name, options): runs to its return when the callback does not
\* suspend, and otherwise hands back a pending promise at the await
runTestCase(r, c, t, suspends, threw, timeout, elapsed) ==
    IF suspends
    THEN [r EXCEPT !.tests[c][t].state = "pending", !.tests[c][t].timeout = timeout]
    ELSE runTestCaseReturns(r, c, t, threw, timeout, elapsed)

PlotsUnchanged ==
    UNCHANGED <<pool, player, structureList, instances, platform, policy, lastCall,
                serialized, service>>

\* run(), up to the loop over this.testClasses
run ==
    /\ runner.pc = "constructed"
    /\ runner' = [runner EXCEPT !.pc = "beforeAll"]
    /\ PlotsUnchanged

\* the BeforeAll callbacks of the class, and the call of runTestClass up to its forEach
beforeAll ==
    /\ runner.pc = "beforeAll"
    /\ runner' = [runner EXCEPT !.pc = "forEach", !.idx = 1]
    /\ PlotsUnchanged

\* the forEach callback for one test: the BeforeEach callbacks, runTestCase without an
\* await on its promise, the AfterEach callbacks
forEachTest(suspends, threw, timeout, elapsed) ==
    /\ runner.pc = "forEach"
    /\ runner.idx <= Len(getTestsFromTestClass(runner, runner.cls))
    /\ LET c == runner.cls
           t == runner.idx
           r1 == [runner EXCEPT !.tests[c][t].beforeEach = TRUE]
           r2 == runTestCase(r1, c, t, suspends, threw, timeout, elapsed)
       IN  runner' = [r2 EXCEPT !.tests[c][t].afterEach = TRUE, !.idx = @ + 1]
    /\ PlotsUnchanged

\* the AfterAll callbacks at the end of runTestClass, the instance's afterAll in run(), and
\* the step of run()'s loop to the next class
afterAll ==
    /\ runner.pc = "forEach"
    /\ runner.idx > Len(getTestsFromTestClass(runner, runner.cls))
    /\ runner' = [runner EXCEPT !.afterAll[runner.cls] = TRUE,
                                !.cls = IF @ < Len(TestClasses) THEN @ + 1 ELSE @,
                                !.pc = IF runner.cls < Len(TestClasses)
                                       THEN "beforeAll" ELSE "report"]
    /\ PlotsUnchanged

\* print(this.generateOutput(elapsedTime)): the totals of the report
generateOutput ==
    /\ runner.pc = "report"
    /\ runner' = [runner EXCEPT !.pc = "done",
                                !.report = [printed |-> TRUE,
                                            totalTests |-> runner.passedTests + runner.failedTests,
                                            passed |-> runner.passedTests,
                                            failed |-> runner.failedTests]]
    /\ PlotsUnchanged

\* the promise a suspended test callback awaits settles and its runTestCase goes on; run()
\* never yields, so this comes after run() returned
resume(c, t, threw, elapsed) ==
    /\ runner.pc = "done"
    /\ t \in 1..Len(runner.tests[c])
    /\ runner.tests[c][t].state = "pending"
    /\ runner' = runTestCaseReturns(runner, c, t, threw, runner.tests[c][t].timeout, elapsed)
    /\ PlotsUnchanged

\* ---- LinkedList<K, V>: a sequence of [key, value] entries ----
RECURSIVE IndexOfKey(_, _)
IndexOfKey(list, key) ==
    IF list = <<>> THEN 0
    ELSE IF list[Len(list)].key = key /\ IndexOfKey(SubSeq(list, 1, Len(list) - 1), key) = 0
         THEN Len(list)
         ELSE IndexOfKey(SubSeq(list, 1, Len(list) - 1), key)

RemoveAt(list, i) == SubSeq(list, 1, i - 1) \o SubSeq(list, i + 1, Len(list))

\* add(key, value): the result of adding, and whether the call returned normally
LinkedListAdd(list, key, value, pol) ==
    LET i == IndexOfKey(list, key)
        e == [key |-> key, value |-> value]
    IN  IF i = 0 THEN [ok |-> TRUE, list |-> Append(list, e)]
        ELSE IF pol = "fail" THEN [ok |-> FALSE, list |-> list]
        ELSE IF pol = "overwrite" THEN [ok |-> TRUE, list |-> [list EXCEPT ![i] = e]]
        ELSE [ok |-> TRUE, list |-> Append(RemoveAt(list, i), e)]

\* map(f): the values transformed by f (a function on the values), in list order
LinkedListMap(list, f) == [k \in 1..Len(list) |-> f[list[k].value]]

\* ---- IStructureInstance ----
\* spawn(parent): clones the template model into parent; the clone keeps the template's CFrame
Spawn(insts, uuid, p) ==
    Append(insts, [uuid |-> uuid, parent |-> p, cframe |-> TemplatePos, destroyCalls |-> 0])

\* destroy(): removes the instance's model from the world
Destroy(insts, i) ==
    [insts EXCEPT ![i].parent = NoParent, ![i].destroyCalls = @ + 1]

\* serialize(reference): the instance's transform relative to the reference, world-absolute without one
SerializeInstance(insts, i, ref) ==
    [uuid |-> insts[i].uuid,
     cframe |-> IF ref = NoPlatform THEN insts[i].cframe ELSE insts[i].cframe - ref]

\* ---- host world ----
\* children of plot[PLOT_STRUCTURES_FOLDER_NAME]
GetChildren(insts, p) == {i \in DOMAIN insts : insts[i].parent = p}

\* the hitbox, where it stands, against the geometry of the plot
hitboxIsCollidedInPlot(insts, hitbox, p) ==
    \E i \in GetChildren(insts, p) : insts[i].cframe = hitbox

\* ---- Plot ----
isAssigned(p) == player[p] # Undefined

getPlatform(p) == platform[p]

\* new Plot(plotInstance), for every plot of the pool
Constructed ==
    /\ player = [p \in PlotIds |-> Undefined]
    /\ structureList = [p \in PlotIds |-> <<>>]
    /\ instances = <<>>
    /\ policy = UnknownPolicy
    /\ lastCall = NoCall
    /\ serialized = <<>>
    /\ service = Idle

\* one plot in the world, with or without a platform; no test run
Init ==
    /\ runner = NoRunner
    /\ pool = <<"A">>
    /\ platform \in {[p \in PlotIds |-> IF p = "A" THEN c ELSE NoPlatform] :
                        c \in {NoPlatform, PlatformCFrame}}
    /\ Constructed

\* two plots in the world: A has a platform, B has none; no test run
InitPool ==
    /\ runner = NoRunner
    /\ pool = <<"A", "B">>
    /\ platform = [p \in PlotIds |-> IF p = "A" THEN PlatformCFrame ELSE NoPlatform]
    /\ Constructed

\* assignPlayer without the Assert.undefined guard: the new player replaces the old one
assignPlayerOverwriting(p, q) ==
    /\ player' = [player EXCEPT ![p] = q]
    /\ lastCall' = Call("assignPlayer", p, IF player[p] # Undefined THEN "AlreadyAssigned" ELSE "none", q)
    /\ serialized' = <<>>
    /\ UNCHANGED <<pool, structureList, instances, platform, policy>>

\* assignPlayer that also refuses a player who holds another plot
assignPlayerOnePlotPerPlayer(p, q) ==
    /\ IF player[p] # Undefined \/ \E o \in PlotIds : player[o] = q
       THEN /\ lastCall' = Call("assignPlayer", p, "AlreadyAssigned", q)
            /\ UNCHANGED player
       ELSE /\ player' = [player EXCEPT ![p] = q]
            /\ lastCall' = Call("assignPlayer", p, "none", q)
    /\ serialized' = <<>>
    /\ UNCHANGED <<pool, structureList, instances, platform, policy>>

\* assignPlayer(player): Assert.undefined(this.player), then this.player = player
assignPlayer(p, q) ==
    /\ IF player[p] # Undefined
       THEN /\ lastCall' = Call("assignPlayer", p, "AlreadyAssigned", q)
            /\ UNCHANGED player
       ELSE /\ player' = [player EXCEPT ![p] = q]
            /\ lastCall' = Call("assignPlayer", p, "none", q)
    /\ serialized' = <<>>
    /\ UNCHANGED <<pool, structureList, instances, platform, policy>>

\* forEach((_, value) => value.destroy())
RECURSIVE DestroyEach(_, _)
DestroyEach(insts, list) ==
    IF list = <<>> THEN insts
    ELSE DestroyEach(Destroy(insts, Head(list).value), Tail(list))

\* clear() without the Assert.empty on the folder's children
ClearResultNoAssert(p) ==
    [insts |-> DestroyEach(instances, structureList[p]), err |-> "none"]

\* the state of the world after clear(), and the error it raises
ClearResult(p) ==
    LET after == DestroyEach(instances, structureList[p])
    IN  [insts |-> after,
         err |-> IF GetChildren(after, p) = {} THEN "none" ELSE "ObjectLeakDetected"]

\* destroy() calls made so far
RECURSIVE DestroyCalls(_)
DestroyCalls(insts) ==
    IF insts = <<>> THEN 0
    ELSE insts[Len(insts)].destroyCalls + DestroyCalls(SubSeq(insts, 1, Len(insts) - 1))

CanDestroy(p) == DestroyCalls(instances) + Len(structureList[p]) <= MaxDestroy

\* clear(); a call is taken while the destroy() calls stay within MaxDestroy
clear(p) ==
    /\ CanDestroy(p)
    /\ instances' = ClearResult(p).insts
    /\ lastCall' = Call("clear", p, ClearResult(p).err, Undefined)
    /\ serialized' = <<>>
    /\ UNCHANGED <<pool, player, structureList, platform, policy>>

\* unassignPlayer(): returns when no player is assigned, else clear(); this.player is not reset
unassignPlayer(p) ==
    /\ IF player[p] = Undefined
       THEN /\ lastCall' = Call("unassignPlayer", p, "none", Undefined)
            /\ UNCHANGED instances
       ELSE /\ CanDestroy(p)
            /\ instances' = ClearResult(p).insts
            /\ lastCall' = Call("unassignPlayer", p, ClearResult(p).err, Undefined)
    /\ serialized' = <<>>
    /\ UNCHANGED <<pool, player, structureList, platform, policy>>

\* the LinkedList has one policy for a key already present; which one shows
\* at the first add of a present key, and it is the same from then on
PolicyAt(list, key) ==
    IF policy = UnknownPolicy /\ IndexOfKey(list, key) # 0 THEN Policies ELSE {policy}

\* PivotTo(cframe)
PivotTo(insts, i, cframe) == [insts EXCEPT ![i].cframe = cframe]

\* the checks before the spawn without the collision oracle
placementCheckNoOracle(p, tmplPrimary) ==
    IF ~tmplPrimary THEN "MissingAnchorGeometry" ELSE "none"

\* addStructure, before the spawn: the error raised, or "none";
\* tmplPrimary: the template model has a PrimaryPart.  The oracle is given the template's own
\* PrimaryPart, which stands where the template stands
placementCheck(p, tmplPrimary) ==
    IF ~tmplPrimary THEN "MissingAnchorGeometry"
    ELSE IF hitboxIsCollidedInPlot(instances, TemplatePos, p) THEN "PlacementCollision"
    ELSE "none"

\* the steps after the spawn with structureList.add moved before the checks
placeSpawnedRegisterFirst(p, uuid, cframe, rel, spawnPrimary, spawned) ==
    LET new == Len(spawned)
        final == IF rel THEN getPlatform(p) + cframe ELSE cframe
    IN  /\ policy' \in PolicyAt(structureList[p], uuid)
        /\ structureList' =
              [structureList EXCEPT ![p] = LinkedListAdd(structureList[p], uuid, new, policy').list]
        /\ IF ~spawnPrimary
           THEN /\ instances' = spawned
                /\ lastCall' = Call("addStructure", p, "SpawnedMissingAnchor", Undefined)
           ELSE IF rel /\ getPlatform(p) = NoPlatform
           THEN /\ instances' = spawned
                /\ lastCall' = Call("addStructure", p, "MissingPlatform", Undefined)
           ELSE /\ instances' = PivotTo(spawned, new, final)
                /\ lastCall' = Call("addStructure", p,
                                    IF LinkedListAdd(structureList[p], uuid, new, policy').ok
                                    THEN "none" ELSE "DuplicateKey", Undefined)

\* addStructure, after the spawn; spawned: the instances with the new one, the last, in the
\* world; spawnPrimary: the spawned model has a PrimaryPart
placeSpawned(p, uuid, cframe, rel, spawnPrimary, spawned) ==
    LET new == Len(spawned)
        final == IF rel THEN getPlatform(p) + cframe ELSE cframe
    IN  IF ~spawnPrimary
        THEN /\ instances' = spawned
             /\ lastCall' = Call("addStructure", p, "SpawnedMissingAnchor", Undefined)
             /\ UNCHANGED <<structureList, policy>>
        ELSE IF rel /\ getPlatform(p) = NoPlatform
        THEN /\ instances' = spawned
             /\ lastCall' = Call("addStructure", p, "MissingPlatform", Undefined)
             /\ UNCHANGED <<structureList, policy>>
        ELSE /\ instances' = PivotTo(spawned, new, final)
             /\ policy' \in PolicyAt(structureList[p], uuid)
             /\ LET added == LinkedListAdd(structureList[p], uuid, new, policy')
                IN  /\ structureList' = [structureList EXCEPT ![p] = added.list]
                    /\ lastCall' = Call("addStructure", p,
                                        IF added.ok THEN "none" ELSE "DuplicateKey", Undefined)

\* addStructure(structureInstance, cframe, positionRelativeToPlatform)
addStructure(p, uuid, cframe, rel, tmplPrimary, spawnPrimary) ==
    /\ Len(instances) < MaxInst
    /\ serialized' = <<>>
    /\ UNCHANGED <<pool, player, platform>>
    /\ IF placementCheck(p, tmplPrimary) # "none"
       THEN /\ lastCall' = Call("addStructure", p, placementCheck(p, tmplPrimary), Undefined)
            /\ UNCHANGED <<instances, structureList, policy>>
       ELSE placeSpawned(p, uuid, cframe, rel, spawnPrimary, Spawn(instances, uuid, p))

\* serialize() that passes no platform CFrame to the instances
serializeWorldAbsolute(p) ==
    LET f == [i \in DOMAIN instances |-> SerializeInstance(instances, i, NoPlatform)]
    IN  /\ serialized' = LinkedListMap(structureList[p], f)
        /\ lastCall' = Call("serialize", p, "none", Undefined)
        /\ UNCHANGED <<pool, player, structureList, instances, platform, policy>>

\* serialize(): structureList.map(structure => structure.serialize(platformCFrame))
serialize(p) ==
    LET platformCFrame == platform[p]
        f == [i \in DOMAIN instances |-> SerializeInstance(instances, i, platformCFrame)]
    IN  /\ serialized' = LinkedListMap(structureList[p], f)
        /\ lastCall' = Call("serialize", p, "none", Undefined)
        /\ UNCHANGED <<pool, player, structureList, instances, platform, policy>>

\* ---- PlotFactory ----
\* the first plot of the pool that is in ok, or Undefined
FirstPlot(ok) ==
    LET idx == {k \in 1..Len(pool) : pool[k] \in ok}
    IN  IF idx = {} THEN Undefined
        ELSE pool[CHOOSE k \in idx : \A j \in idx : k <= j]

\* PlotFactory.assignPlayer(player): the first unassigned plot, assigned to the player
FactoryFreePlot ==
    FirstPlot({p \in PlotIds : ~isAssigned(p)})

\* PlotFactory.getPlayersPlot(player)
getPlayersPlot(q) ==
    FirstPlot({p \in PlotIds : player[p] = q})

\* getStructureById(id)
getStructureById(id) == IF id \in StructureIds THEN id ELSE Undefined

\* ---- PlotService ----
\* the join connection firing its events whatever PlotFactory.assignPlayer returned
PlayerJoinAlwaysFiring(q, threw) ==
    LET plot == FactoryFreePlot
        events == << <<"onPlotAssigned", q, plot>>, <<"plotAssigned", q, plot>> >>
    IN  /\ serialized' = <<>>
        /\ UNCHANGED <<pool, structureList, instances, platform, policy>>
        /\ IF threw
           THEN /\ lastCall' = Call("joinThrew", "A", "none", Undefined)
                /\ service' = Handled("join", Undefined, "threw", <<>>, "error", FALSE)
                /\ UNCHANGED player
           ELSE IF plot = Undefined
           THEN /\ lastCall' = Call("joinNoPlot", "A", "none", Undefined)
                /\ service' = Handled("join", Undefined, "undefined", events, "info", FALSE)
                /\ UNCHANGED player
           ELSE /\ player' = [player EXCEPT ![plot] = q]
                /\ lastCall' = Call("join", plot, "none", Undefined)
                /\ service' = Handled("join", Undefined, "plot", events, "info", FALSE)

\* the player join connection; threw: PlotFactory.assignPlayer raised an error
PlayerJoin(q, threw) ==
    LET plot == FactoryFreePlot
    IN  /\ serialized' = <<>>
        /\ UNCHANGED <<pool, structureList, instances, platform, policy>>
        /\ IF threw
           THEN /\ lastCall' = Call("joinThrew", "A", "none", Undefined)
                /\ service' = Handled("join", Undefined, "threw", <<>>, "error", FALSE)
                /\ UNCHANGED player
           ELSE IF plot = Undefined
           THEN /\ lastCall' = Call("joinNoPlot", "A", "none", Undefined)
                /\ service' = Handled("join", Undefined, "undefined", <<>>, "none", FALSE)
                /\ UNCHANGED player
           ELSE /\ player' = [player EXCEPT ![plot] = q]
                /\ lastCall' = Call("join", plot, "none", Undefined)
                /\ service' = Handled("join", Undefined, "plot",
                                      << <<"onPlotAssigned", q, plot>>,
                                         <<"plotAssigned", q, plot>> >>,
                                      "info", FALSE)

\* the player leaving connection
PlayerLeaving(q) ==
    LET plot == getPlayersPlot(q)
    IN  /\ serialized' = <<>>
        /\ UNCHANGED <<pool, player, structureList, platform, policy>>
        /\ IF plot = Undefined
           THEN /\ lastCall' = Call("leaveNoPlot", "A", "none", Undefined)
                /\ service' = Handled("leave", Undefined, "none", <<>>, "none", FALSE)
                /\ UNCHANGED instances
           ELSE /\ CanDestroy(plot)
                /\ instances' = ClearResult(plot).insts
                /\ lastCall' = Call("leave", plot, ClearResult(plot).err, Undefined)
                /\ service' = Handled("leave", Undefined, "none", <<>>, "none",
                                      ClearResult(plot).err # "none")

\* placeStructure without the assert on the structure
placeStructureAnyStructure(q, structureId, cframe, structureUUID, tmplPrimary, spawnPrimary) ==
    LET playersPlot == getPlayersPlot(q)
        uuid == IF structureUUID = Undefined THEN "" ELSE structureUUID
    IN  /\ IF playersPlot = Undefined
           THEN /\ lastCall' = Call("placeStructure", "A", "PlotNotFound", Undefined)
                /\ serialized' = <<>>
                /\ UNCHANGED <<pool, player, structureList, instances, platform, policy>>
           ELSE addStructure(playersPlot, uuid, cframe, FALSE, tmplPrimary, spawnPrimary)
        /\ service' = Handled("placeStructure", q, structureId, <<>>, "none",
                              lastCall'.err # "none")

\* placeStructure(player, structureId, cframe, structureUUID), called by the placeStructure
\* event connection
placeStructure(q, structureId, cframe, structureUUID, tmplPrimary, spawnPrimary) ==
    LET playersPlot == getPlayersPlot(q)
        structure == getStructureById(structureId)
        uuid == IF structureUUID = Undefined THEN "" ELSE structureUUID
    IN  /\ IF playersPlot = Undefined
           THEN /\ lastCall' = Call("placeStructure", "A", "PlotNotFound", Undefined)
                /\ serialized' = <<>>
                /\ UNCHANGED <<pool, player, structureList, instances, platform, policy>>
           ELSE IF structure = Undefined
           THEN /\ lastCall' = Call("placeStructure", playersPlot, "StructureNotFound", Undefined)
                /\ serialized' = <<>>
                /\ UNCHANGED <<pool, player, structureList, instances, platform, policy>>
           ELSE addStructure(playersPlot, uuid, cframe, FALSE, tmplPrimary, spawnPrimary)
        /\ service' = Handled("placeStructure", q, structureId, <<>>, "none",
                              lastCall'.err # "none")

\* a call of a Plot method from outside the service's handlers
Direct == service' = Idle

\* the calls of the Plot methods, and the join and leave connections
Next ==
    \/ \E p \in Loaded, q \in Players : assignPlayer(p, q) /\ Direct /\ UNCHANGED runner
    \/ \E p \in Loaded : unassignPlayer(p) /\ Direct /\ UNCHANGED runner
    \/ \E p \in Loaded : clear(p) /\ Direct /\ UNCHANGED runner
    \/ \E p \in Loaded, u \in UUIDs, c \in CFrames, rel, tp, sp \in BOOLEAN :
          addStructure(p, u, c, rel, tp, sp) /\ Direct /\ UNCHANGED runner
    \/ \E p \in Loaded : serialize(p) /\ Direct /\ UNCHANGED runner
    \/ \E q \in Players, threw \in BOOLEAN : PlayerJoin(q, threw) /\ UNCHANGED runner
    \/ \E q \in Players : PlayerLeaving(q) /\ UNCHANGED runner

\* the connections of PlotService, and assignPlayer called on a plot of the pool; the
\* catalog's template model and its clones have a PrimaryPart
NextService ==
    \/ \E q \in Players, threw \in BOOLEAN : PlayerJoin(q, threw) /\ UNCHANGED runner
    \/ \E q \in Players : PlayerLeaving(q) /\ UNCHANGED runner
    \/ \E q \in Players, id \in StructureIdArgs, c \in CFrames, u \in UUIDArgs,
          sp \in {TRUE} : placeStructure(q, id, c, u, TRUE, sp) /\ UNCHANGED runner
    \/ \E p \in Loaded, q \in Players : assignPlayer(p, q) /\ Direct /\ UNCHANGED runner

\* ---- a run of the TestRunner ----
InitRunner ==
    /\ \E counts \in [ClassIdx -> 0..MaxTests] :
          /\ Cardinality({ct \in ClassIdx \X (1..MaxTests) : ct[2] <= counts[ct[1]]}) <= MaxTests
          /\ runner = TestRunner(counts)
    /\ pool = <<"A">>
    /\ platform = [p \in PlotIds |-> NoPlatform]
    /\ Constructed

NextRunner ==
    \/ run
    \/ beforeAll
    \/ \E suspends, threw \in BOOLEAN, timeout \in Timeouts, elapsed \in ElapsedMs :
          forEachTest(suspends, threw, timeout, elapsed)
    \/ afterAll
    \/ generateOutput
    \/ \E c \in ClassIdx, t \in 1..MaxTests, threw \in BOOLEAN, elapsed \in ElapsedMs :
          resume(c, t, threw, elapsed)

\* ---- properties ----
Registered(p) == {structureList[p][k].value : k \in 1..Len(structureList[p])}

\* C1: assignPlayer(q) on a plot that has a player p fails with AlreadyAssigned and leaves
\* p assigned, for every p and q, q = p included
C1_AssignAssignedFails ==
    [][(lastCall'.op = "assignPlayer" /\ player[lastCall'.plot] # Undefined)
         => (lastCall'.err = "AlreadyAssigned" /\ player' = player)]_vars

C1_Witness ==
    /\ lastCall.op = "assignPlayer"
    /\ lastCall.err = "AlreadyAssigned"
    /\ player[lastCall.plot] = lastCall.who

\* C2: when unassignPlayer() returns without error the plot is Unassigned
C2_UnassignUnassigns ==
    (lastCall.op = "unassignPlayer" /\ lastCall.err = "none")
        => player[lastCall.plot] = Undefined

\* C3: after unassignPlayer() (called directly or by the leave handler) returned, the next
\* assignPlayer(q) on that plot does not fail and leaves q assigned
C3_Reusable ==
    [][(/\ lastCall.op \in {"unassignPlayer", "leave"}
        /\ lastCall.err = "none"
        /\ lastCall'.op = "assignPlayer"
        /\ lastCall'.plot = lastCall.plot)
         => (lastCall'.err = "none" /\ player'[lastCall'.plot] = lastCall'.who)]_vars

\* C4: a second unassignPlayer() in a row raises no error, destroys nothing more, and ends
\* Unassigned with an empty structure map
C4_UnassignIdempotent ==
    [][(/\ lastCall.op = "unassignPlayer"
        /\ lastCall'.op = "unassignPlayer"
        /\ lastCall'.plot = lastCall.plot)
         => (/\ lastCall'.err = "none"
             /\ instances' = instances
             /\ player'[lastCall'.plot] = Undefined
             /\ structureList'[lastCall'.plot] = <<>>)]_vars

\* C5: when the collision oracle reports a collision, addStructure fails and neither the
\* structure map nor the world changes: nothing is spawned
C5_CollisionNoMutation ==
    [][(/\ lastCall'.op = "addStructure"
        /\ hitboxIsCollidedInPlot(instances, TemplatePos, lastCall'.plot))
         => (/\ lastCall'.err \in {"PlacementCollision", "MissingAnchorGeometry"}
             /\ structureList' = structureList
             /\ instances' = instances)]_vars

C5_Witness ==
    /\ lastCall.op = "addStructure"
    /\ lastCall.err = "PlacementCollision"
    /\ structureList[lastCall.plot] # <<>>

\* C6: a failed addStructure leaves the structure map as it was; the map changes only in a
\* call that spawned the instance, placed it and returned without error
C6_NoPartialSuccess ==
    [][lastCall'.op = "addStructure"
         => (/\ lastCall'.err # "none" => structureList' = structureList
             /\ structureList' # structureList =>
                   (/\ lastCall'.err = "none"
                    /\ Len(instances') = Len(instances) + 1
                    /\ instances'[Len(instances')].parent = lastCall'.plot))]_vars

C6_Witness ==
    /\ lastCall.op = "addStructure"
    /\ lastCall.err = "MissingPlatform"
    /\ structureList[lastCall.plot] # <<>>

\* C7: every object in a plot's world structures container belongs to an instance
\* registered in the plot's structure map
C7_NoOrphan ==
    \A p \in Loaded : GetChildren(instances, p) \subseteq Registered(p)

\* C8: clear() destroys the model of every registered instance; when it returns normally the
\* container has no children, and when a child remains it raises the object-leak error
C8_ClearLeakCheck ==
    [][lastCall'.op = "clear"
         => (/\ \A i \in Registered(lastCall'.plot) :
                   /\ instances'[i].parent = NoParent
                   /\ instances'[i].destroyCalls = instances[i].destroyCalls + 1
             /\ lastCall'.err = "none" => GetChildren(instances', lastCall'.plot) = {}
             /\ GetChildren(instances', lastCall'.plot) # {}
                   => lastCall'.err = "ObjectLeakDetected")]_vars

C8_Witness ==
    /\ lastCall.op = "clear"
    /\ lastCall.err = "ObjectLeakDetected"
    /\ structureList[lastCall.plot] # <<>>
    /\ GetChildren(instances, lastCall.plot) # {}

\* C9: a placement addStructure accepts is at a transform where no placed structure of the
\* plot stands: a placement at an occupied transform is rejected
C9_OccupiedRejected ==
    [][(lastCall'.op = "addStructure" /\ lastCall'.err = "none")
         => ~ \E i \in Registered(lastCall'.plot) :
                  /\ \E k \in 1..Len(structureList'[lastCall'.plot]) :
                         structureList'[lastCall'.plot][k].value = i
                  /\ instances[i].parent = lastCall'.plot
                  /\ instances[i].cframe = instances'[Len(instances')].cframe]_vars

C11_UniquePlacement ==
    [][(/\ service'.handler = "placeStructure"
        /\ lastCall'.op = "addStructure"
        /\ lastCall'.err = "none")
         => LET before == structureList[lastCall'.plot]
                after == structureList'[lastCall'.plot]
            IN  /\ Len(after) = Len(before) + 1
                /\ \A k, j \in 1..Len(after) : k # j => after[k].key # after[j].key]_vars

\* C12: placeStructure for a player without a plot, or for a structure id that is not in the
\* catalog, fails without calling addStructure: no structure map, world container or player
\* changes
C12_RejectedRequest ==
    [][(/\ service'.handler = "placeStructure"
        /\ \/ getPlayersPlot(service'.who) = Undefined
           \/ service'.arg \notin StructureIds)
         => (/\ lastCall'.op = "placeStructure"
             /\ lastCall'.err \in {"PlotNotFound", "StructureNotFound"}
             /\ structureList' = structureList
             /\ instances' = instances
             /\ player' = player)]_vars

C12_Witness ==
    /\ service.handler = "placeStructure"
    /\ lastCall.op = "placeStructure"
    /\ lastCall.err = "StructureNotFound"
    /\ structureList[lastCall.plot] # <<>>

\* C13: no error leaves the join, leave or placeStructure handler
C13_HandlersCatch ==
    service.handler \in {"join", "leave", "placeStructure"} => ~service.escaped

\* C14: assignPlayer(q) on an unassigned plot succeeds whatever other plot q holds, and
\* changes nothing but that plot's player
C14_PerPlotOnly ==
    [][(lastCall'.op = "assignPlayer" /\ player[lastCall'.plot] = Undefined)
         => (/\ lastCall'.err = "none"
             /\ player' = [player EXCEPT ![lastCall'.plot] = lastCall'.who]
             /\ structureList' = structureList
             /\ instances' = instances)]_vars

C14_Witness ==
    /\ lastCall.op = "assignPlayer"
    /\ lastCall.err = "none"
    /\ \E o \in Loaded \ {lastCall.plot} :
          /\ player[o] = lastCall.who
          /\ structureList[o] # <<>>

\* C15: no destroyed instance is registered in a structure map
C15_NoDestroyedRegistered ==
    \A p \in Loaded : \A i \in Registered(p) : instances[i].destroyCalls = 0

\* C16: the join handler fires onPlotAssigned and plotAssigned once each, with the player and
\* the plot, when PlotFactory.assignPlayer returned a plot; it fires nothing when that returned
\* undefined or raised an error, which is logged; no error leaves the handler
C16_JoinFires ==
    [][service'.handler = "join"
         => (/\ service'.arg = "plot" =>
                  \E p \in Loaded :
                     /\ player[p] = Undefined
                     /\ player'[p] # Undefined
                     /\ service'.fired = << <<"onPlotAssigned", player'[p], p>>,
                                            <<"plotAssigned", player'[p], p>> >>
             /\ service'.arg \in {"undefined", "threw"} =>
                  (service'.fired = <<>> /\ player' = player)
             /\ service'.arg = "undefined" <=> (~ \E p \in Loaded : player[p] = Undefined)
                                                 /\ service'.logged # "error"
             /\ service'.arg = "threw" => service'.logged = "error"
             /\ ~service'.escaped)]_vars

C16_Witness ==
    /\ service.handler = "join"
    /\ service.arg = "plot"
    /\ Len(service.fired) = 2
    /\ service.fired[1][3] = "B"

\* the test cases the runner discovered, as <<class, test>> pairs
Discovered(r) == {ct \in ClassIdx \X (1..MaxTests) : ct[2] <= Len(r.tests[ct[1]])}

\* C17: every test case whose runTestCase completes is counted exactly once: a callback
\* that threw, or an elapsed time above the configured timeout, records an errorMessage and
\* increments failedTests only; any other test records no errorMessage and increments
\* passedTests only; passedTests + failedTests is the number of completed runTestCase calls.
C17_CountedOnce ==
    [][/\ runner'.passedTests + runner'.failedTests = runner'.completed
       /\ runner'.completed # runner.completed =>
             LET k == runner'.lastCase
                 res == runner'.results[k.cls][k.test]
             IN  /\ runner'.completed = runner.completed + 1
                 /\ res.recorded
                 /\ IF k.threw \/ (k.timeout # NoTimeout /\ k.elapsed > k.timeout)
                    THEN /\ runner'.failedTests = runner.failedTests + 1
                         /\ runner'.passedTests = runner.passedTests
                         /\ res.errorMessage # Undefined
                    ELSE /\ runner'.passedTests = runner.passedTests + 1
                         /\ runner'.failedTests = runner.failedTests
                         /\ res.errorMessage = Undefined]_vars

\* a run in which one test passed and the last completed test, which did not throw, failed
\* on its timeout
C17_Witness ==
    /\ runner.passedTests >= 1
    /\ runner.failedTests >= 1
    /\ runner.lastCase.cls # 0
    /\ ~runner.lastCase.threw
    /\ runner.lastCase.timeout # NoTimeout
    /\ runner.lastCase.elapsed > runner.lastCase.timeout
    /\ runner.results[runner.lastCase.cls][runner.lastCase.test].errorMessage = "Timed out"

\* C18: when run() prints its report, every discovered test case, the asynchronous ones
\* included, has completed and recorded its result: the reported total is the number of
\* discovered test cases.
C18_ReportComplete ==
    runner.report.printed =>
        /\ runner.report.totalTests = Cardinality(Discovered(runner))
        /\ runner.report.passed + runner.report.failed = runner.report.totalTests

\* C19: for every test case beforeEach comes before the test callback and afterEach after
\* the callback completed, and a class's AfterAll callbacks run after all of the class's test
\* callbacks completed.
C19_HooksOrdered ==
    /\ \A ct \in Discovered(runner) :
          LET test == runner.tests[ct[1]][ct[2]]
          IN  /\ test.state # "notrun" => test.beforeEach
              /\ test.afterEach => test.state = "completed"
    /\ \A c \in ClassIdx :
          runner.afterAll[c] =>
              \A t \in 1..Len(runner.tests[c]) : runner.tests[c][t].state = "completed"


\* every call sequence on one Plot
Spec == Init /\ [][Next]_vars

\* PlotService over a pool of two plots
SpecPool == InitPool /\ [][NextService]_vars

\* a run of the TestRunner over two test classes
SpecRunner == InitRunner /\ [][NextRunner]_vars
====
